---- MODULE Spec2Model ----
(***************************************************************************)
(* Model of the index backup-and-restore notebook                          *)
(* (azure-search-backup-and-restore.ipynb): backup_and_restore_index, the  *)
(* two page generators it drives, and verify_counts; and of two functions  *)
(* of the index-and-chat notebook: answer_query_documents and              *)
(* upload_sample_documents.                                                *)
(*                                                                         *)
(* Document keys are Edm.String values; they are modelled by the naturals  *)
(* 1..MaxKey in the order the service's "order by" and "gt" use.  The key  *)
(* field is named "id", every document has one further field, "content".   *)
(***************************************************************************)
EXTENDS Integers, Sequences, FiniteSets, TLC

\* ---- bounds -------------------------------------------------------------
MaxKey == 3
MaxPageSize == 2
MaxQueryCap == 3
MaxTargetInit == 1
MaxRuns == 2
MaxTitles == 1
MaxChildHits == 1
MaxCalls == 2
MaxChanges == 2
MaxFiles == 2

Keys == 1..MaxKey
Vals == {"a", "b"}
None == [py |-> "None"]
Unbound == [py |-> "unbound"]   \* a local name no assignment has bound yet
NoError == "none"
TargetName == "target-index"
Null == "null"

VARIABLES
    target0,                \* the target's documents before the run
    schema,                 \* source index definition: sequence of fields
    source,                 \* source documents: key -> content
    pageSize,               \* documents per page of a search response
    queryCap,               \* documents per query (top=100000 in the code)
    targetSchema,           \* target index definition, None if absent
    target,                 \* target documents: key -> content
    pc,                     \* position in backup_and_restore_index
    key_field,
    non_retrievable_fields,
    document_count,
    can_use_filter,
    gen,                    \* state of the generator all_documents
    last_item,
    response,               \* the paged response being iterated
    lastFetch,              \* the page most recently fetched from the source
    page,
    result,
    progress,
    failed_documents,
    failed_keys,
    output,                 \* what has been printed
    queries,                \* search calls issued on the source
    fetches,                \* number of pages fetched from the source
    targetCalls,            \* calls issued on the target
    error,
    runs,                   \* runs of backup_and_restore_index begun
    yielded,                \* the pages the generator has yielded, in order
    first,                  \* what the first of two compared runs did
    changes,                \* writes others have made to the source meanwhile
    chat,                   \* the index-and-chat notebook's conversation
    blob                    \* the blob container of the sample documents

vars == <<target0, schema, source, pageSize, queryCap, targetSchema, target, pc,
          key_field, non_retrievable_fields, document_count, can_use_filter,
          gen, last_item, response, lastFetch, page, result, progress,
          failed_documents, failed_keys, output, queries, fetches,
          targetCalls, error, runs, yielded, first, changes, chat, blob>>

\* ---- the search service -------------------------------------------------

\* The key field and the content field of an index definition.
KeyFieldDef(k, f, s) ==
    [name |-> "id", key |-> k, hidden |-> FALSE,
     filterable |-> f, sortable |-> s]

ContentFieldDef(h) ==
    [name |-> "content", key |-> FALSE, hidden |-> h,
     filterable |-> FALSE, sortable |-> FALSE]

Schemas ==
    { <<KeyFieldDef(k, f, s), ContentFieldDef(h)>> :
          k \in BOOLEAN, f \in BOOLEAN, s \in BOOLEAN, h \in BOOLEAN }

IndexDef(name, fields) == [name |-> name, fields |-> fields]

\* Collections of at most n documents.
Collections(n) ==
    UNION { [D -> Vals] : D \in { S \in SUBSET Keys : Cardinality(S) <= n } }

Min(a, b) == IF a <= b THEN a ELSE b

RECURSIVE Ascending(_)
Ascending(S) ==
    IF S = {} THEN <<>>
    ELSE LET m == CHOOSE x \in S : \A y \in S : x <= y
         IN  <<m>> \o Ascending(S \ {m})

RECURSIVE Reverse(_)
Reverse(s) ==
    IF s = <<>> THEN <<>> ELSE Reverse(Tail(s)) \o <<Head(s)>>

\* A search hit: only retrievable fields carry their value.
Hit(docs, sch, k) ==
    [id |-> k,
     content |-> IF \E i \in 1..Len(sch) :
                        sch[i].name = "content" /\ sch[i].hidden
                 THEN Null ELSE docs[k]]

\* The keys a query matches, in the order the service returns them: ascending
\* by key under order_by, the service's own order (here: descending) without.
HitOrder(docs, filter, order_by) ==
    LET matching == { k \in DOMAIN docs :
                         \/ filter = None
                         \/ filter.op = "gt" /\ k > filter.value
                         \/ filter.op = "ge" /\ k >= filter.value }
    IN  IF order_by THEN Ascending(matching) ELSE Reverse(Ascending(matching))

\* One page of a response: at most pageSize of the hits not yet returned,
\* and never more than the query's remaining top.
PageOf(docs, sch, resp, size) ==
    LET hits == HitOrder(docs, resp.filter, resp.order_by)
        n    == Min(Min(size, resp.top), Len(hits) - resp.skip)
    IN  [k \in 1..n |-> Hit(docs, sch, hits[resp.skip + k])]

\* Whether the service hands out a continuation after a page of n hits.
MorePages(docs, resp, n) ==
    /\ resp.top - n > 0
    /\ resp.skip + n < Len(HitOrder(docs, resp.filter, resp.order_by))

\* Variant of Filter: "ge" in place of "gt".
FilterGe(key_field_name, item) ==
    [field |-> key_field_name, op |-> "ge", value |-> item[key_field_name]]

\* f"{key_field_name} gt '{last_item[key_field_name]}'"
Filter(key_field_name, item) ==
    [field |-> key_field_name, op |-> "gt", value |-> item[key_field_name]]

\* search(search_text="*", top=queryCap, order_by=.., filter=..).by_page()
Search(filter, order_by, top) ==
    [filter |-> filter, order_by |-> order_by, skip |-> 0, top |-> top,
     more |-> TRUE]

\* Variant of Upsert: a document whose key the index already holds is stored
\* as a further document instead of replacing the one held.
InsertAsNew(docs, pg, failing) ==
    LET ok == { i \in 1..Len(pg) : pg[i].id \notin failing }
        keyOf(i) == IF pg[i].id \in DOMAIN docs
                    THEN pg[i].id + MaxKey ELSE pg[i].id
        ks == { keyOf(i) : i \in ok }
    IN  [k \in DOMAIN docs \cup ks |->
            IF k \in ks
            THEN pg[CHOOSE j \in ok : keyOf(j) = k].content
            ELSE docs[k]]

\* upload_documents: merge-or-upload of every document that succeeds.
Upsert(docs, pg, failing) ==
    LET ok == { i \in 1..Len(pg) : pg[i].id \notin failing }
        ks == { pg[i].id : i \in ok }
    IN  [k \in DOMAIN docs \cup ks |->
            IF k \in ks
            THEN (LET i == CHOOSE j \in ok : pg[j].id = k /\
                               \A l \in ok : pg[l].id = k => l <= j
                  IN  pg[i].content)
            ELSE docs[k]]

IndexingResults(pg, failing) ==
    [i \in 1..Len(pg) |->
        [key |-> pg[i].id, succeeded |-> pg[i].id \notin failing,
         error_message |-> IF pg[i].id \in failing THEN "conflict" ELSE "none"]]

\* No call of answer_query_documents has been made: the caller's history
\* is the empty list.
ChatIdle ==
    [pc |-> "idle", n |-> 0, history |-> <<>>,
     include_parent_documents |-> TRUE, include_child_documents |-> TRUE,
     chat_history |-> <<>>, titles |-> <<>>, formatted_results |-> <<>>,
     messages |-> <<>>, calls |-> <<>>, error |-> NoError,
     given |-> <<>>, found |-> {}, ok |-> 0]

\* The names of the PDF files and blobs, and what may be stored under them.
Names == 1..MaxFiles

Stores == UNION { [D -> Vals] : D \in SUBSET Names }

\* upload_sample_documents has not been called; container tells whether the
\* container exists, blobs what it holds, files what the documents directory
\* holds.  before and once keep the container as it was before the first
\* call and after it.
BlobStart(container, blobs, files) ==
    [pc |-> "idle", n |-> 0, container |-> container, blobs |-> blobs,
     files |-> files, pdf_files |-> {}, calls |-> <<>>,
     before |-> [container |-> container, blobs |-> blobs], once |-> None]

\* No container and an empty documents directory.
BlobIdle == BlobStart(FALSE, [name \in {} |-> "a"], [name \in {} |-> "a"])

\* ---- initial state ------------------------------------------------------

\* The two indexes and the locals of backup_and_restore_index before a run.
InitBackup ==
    /\ schema \in Schemas
    /\ source \in Collections(MaxKey)
    /\ pageSize \in 1..MaxPageSize
    /\ queryCap \in 1..MaxQueryCap
    /\ target \in Collections(MaxTargetInit)
    \* the two values are interchangeable: what the target holds beforehand
    \* is given the second one, the source's documents carry either
    /\ \A k \in DOMAIN target : target[k] = "b"
    \* and it is held under the lowest keys; the source's keys are any
    /\ DOMAIN target = 1..Cardinality(DOMAIN target)
    /\ target0 = target
    /\ targetSchema = IF DOMAIN target = {} THEN None
                      ELSE IndexDef(TargetName,
                                    <<KeyFieldDef(TRUE, TRUE, TRUE),
                                      ContentFieldDef(FALSE)>>)
    /\ pc = "get_index"
    /\ key_field = Unbound
    /\ non_retrievable_fields = <<>>
    /\ document_count = 0
    /\ can_use_filter = FALSE
    /\ gen = "none"
    /\ last_item = None
    /\ response = None
    /\ lastFetch = <<>>
    /\ page = <<>>
    /\ result = <<>>
    /\ progress = 0
    /\ failed_documents = 0
    /\ failed_keys = <<>>
    /\ output = <<>>
    /\ queries = <<>>
    /\ fetches = 0
    /\ targetCalls = <<>>
    /\ error = NoError
    /\ runs = 1
    /\ yielded = <<>>
    /\ first = None
    /\ changes = 0

Init ==
    /\ InitBackup
    /\ chat = ChatIdle
    /\ blob = BlobIdle

\* ---- backup_and_restore_index -------------------------------------------

Emit(msg) == Append(output, msg)

\* Variant of NonRetrievable: the test on hidden is inverted.
NonRetrievableInverted(fields) ==
    SelectSeq(fields, LAMBDA f : f.hidden # TRUE)

\* for field in source_index.fields: if field.hidden == True: append
NonRetrievable(fields) == SelectSeq(fields, LAMBDA f : f.hidden = TRUE)

\* Variant of KeyFieldOf: key_field starts out as the first field.
KeyFieldOfDefaulted(fields) ==
    LET ks == { i \in 1..Len(fields) : fields[i].key = TRUE }
    IN  IF ks = {} THEN fields[1]
        ELSE fields[CHOOSE i \in ks : \A j \in ks : j <= i]

\* for field in source_index.fields: if field.key == True: key_field = field
KeyFieldOf(fields) ==
    LET ks == { i \in 1..Len(fields) : fields[i].key = TRUE }
    IN  IF ks = {} THEN Unbound
        ELSE fields[CHOOSE i \in ks : \A j \in ks : j <= i]

\* Python truth value of an object reference or of a non-empty dict.
Truthy(x) == x # None

FieldNames(fields) == [i \in 1..Len(fields) |-> fields[i].name]

\* get_index, the loop over the fields, the key check and the warning.
GetIndex ==
    /\ pc = "get_index"
    /\ non_retrievable_fields' = NonRetrievable(schema)
    /\ key_field' = KeyFieldOf(schema)
    /\ IF key_field' = Unbound
       THEN /\ error' = "UnboundLocalError"
            /\ pc' = "raised"
            /\ output' = output
       ELSE IF ~Truthy(key_field')
       THEN /\ error' = "Key Field Not Found"
            /\ pc' = "raised"
            /\ output' = output
       ELSE /\ error' = error
            /\ pc' = "create_index"
            /\ output' = IF Len(non_retrievable_fields') > 0
                         THEN Emit([msg |-> "WARNING: not retrievable",
                                     fields |-> FieldNames(non_retrievable_fields')])
                         ELSE output
    /\ UNCHANGED <<first, changes, blob, yielded, chat, runs, target0, schema, source, pageSize, queryCap, targetSchema, target,
                   document_count, can_use_filter, gen, last_item, response,
                   lastFetch, page, result, progress, failed_documents,
                   failed_keys, queries, fetches, targetCalls>>

\* Variant of CreateTargetIndex: the index is not created before the upload.
CreateTargetIndexSkipped ==
    /\ pc = "create_index"
    /\ pc' = "total_count"
    /\ UNCHANGED <<first, changes, blob, yielded, chat, runs, target0, schema, source, pageSize, queryCap, target,
                   targetSchema, targetCalls, key_field,
                   non_retrievable_fields, document_count, can_use_filter,
                   gen, last_item, response, lastFetch, page, result,
                   progress, failed_documents, failed_keys, output, queries,
                   fetches, error>>

\* Variant of CreateTargetIndex: the target index is deleted and created
\* anew, which drops the documents it held.
CreateTargetIndexRecreated ==
    /\ pc = "create_index"
    /\ targetSchema' = IndexDef(TargetName, schema)
    /\ target' = [k \in {} |-> "a"]
    /\ targetCalls' = Append(targetCalls,
                             [op |-> "create_or_update_index",
                              index |-> IndexDef(TargetName, schema)])
    /\ pc' = "total_count"
    /\ UNCHANGED <<first, changes, blob, yielded, chat, runs, target0,
                   schema, source, pageSize, queryCap, key_field,
                   non_retrievable_fields, document_count, can_use_filter,
                   gen, last_item, response, lastFetch, page, result,
                   progress, failed_documents, failed_keys, output, queries,
                   fetches, error>>

\* source_index.name = target_index_name; create_or_update_index(source_index)
CreateTargetIndex ==
    /\ pc = "create_index"
    /\ targetSchema' = IndexDef(TargetName, schema)
    /\ targetCalls' = Append(targetCalls,
                             [op |-> "create_or_update_index",
                              index |-> IndexDef(TargetName, schema)])
    /\ pc' = "total_count"
    /\ UNCHANGED <<first, changes, blob, yielded, chat, runs, target0, schema, source, pageSize, queryCap, target, key_field,
                   non_retrievable_fields, document_count, can_use_filter,
                   gen, last_item, response, lastFetch, page, result,
                   progress, failed_documents, failed_keys, output, queries,
                   fetches, error>>

\* document_count = total_count(source_search_client), the count the
\* service returns being count.
TotalCountReturning(count) ==
    /\ pc = "total_count"
    /\ document_count' = count
    /\ queries' = Append(queries,
                         [filter |-> None, order_by |-> FALSE, top |-> 0])
    /\ pc' = "select"
    /\ UNCHANGED <<first, changes, blob, yielded, chat, runs, target0, schema, source, pageSize, queryCap, targetSchema, target,
                   key_field, non_retrievable_fields, can_use_filter, gen,
                   last_item, response, lastFetch, page, result, progress,
                   failed_documents, failed_keys, output, fetches,
                   targetCalls, error>>

\* total_count: search(include_total_count=True, search_text="*", top=0)
TotalCount == TotalCountReturning(Cardinality(DOMAIN source))

\* Variant of CanUseFilter: "or" in place of "and".
CanUseFilterEither(field) == field.sortable \/ field.filterable

CanUseFilter(field) == field.sortable /\ field.filterable

\* can_use_filter, the warning, the choice of generator, the counters.
SelectPagination ==
    /\ pc = "select"
    /\ can_use_filter' = CanUseFilter(key_field)
    /\ output' = IF ~can_use_filter'
                 THEN Emit([msg |-> "WARNING: maximum of 100,000 records"])
                 ELSE output
    /\ gen' = "created"
    /\ failed_documents' = 0
    /\ failed_keys' = <<>>
    /\ progress' = 0
    /\ pc' = "next_page"
    /\ UNCHANGED <<first, changes, blob, yielded, chat, runs, target0, schema, source, pageSize, queryCap, targetSchema, target,
                   key_field, non_retrievable_fields, document_count,
                   last_item, response, lastFetch, page, result, queries,
                   fetches, targetCalls, error>>

\* ---- the generators: search_results_with_filter / _without_filter -------

\* Variants of NextLastItem: the first document of the page instead of the
\* last; last_item kept on an empty page; last_item cleared on every page.
NextLastItemFirst(pg, item) == IF Len(pg) > 0 THEN pg[1] ELSE None

NextLastItemKept(pg, item) == IF Len(pg) > 0 THEN pg[Len(pg)] ELSE item

NextLastItemCleared(pg, item) == None

\* if len(page) > 0: last_item = page[-1] else: last_item = None
NextLastItem(pg, item) == IF Len(pg) > 0 THEN pg[Len(pg)] ELSE None

NextResponse(resp, n) ==
    [resp EXCEPT !.skip = resp.skip + n, !.top = resp.top - n,
                 !.more = MorePages(source, resp, n)]

\* The first statements of the generator body, run at the first next():
\* last_item = None and the first search call.
GenStart ==
    /\ pc = "next_page"
    /\ gen = "created"
    /\ gen' = "running"
    /\ last_item' = None
    /\ response' = Search(None, can_use_filter, queryCap)
    /\ queries' = Append(queries, [filter |-> None,
                                   order_by |-> can_use_filter,
                                   top |-> queryCap])
    /\ UNCHANGED <<first, changes, blob, yielded, chat, runs, target0, schema, source, pageSize, queryCap, targetSchema, target,
                   pc, key_field, non_retrievable_fields, document_count,
                   can_use_filter, lastFetch, page, result, progress,
                   failed_documents, failed_keys, output, fetches,
                   targetCalls, error>>

\* yield page: the page is handed to the loop; the query it came from is
\* the last one issued.
Yield(pg) == Append(yielded, [query |-> Len(queries), page |-> pg])

\* Variant of FetchPage: the generator goes on to fetch the next page of the
\* response before the one it holds has been handed over and uploaded.
FetchPagePrefetching ==
    /\ pc = "next_page"
    /\ gen = "running"
    /\ response.more
    /\ LET pg == PageOf(source, schema, response, pageSize)
       IN  /\ lastFetch' = pg
           /\ fetches' = fetches + 1
           /\ response' = NextResponse(response, Len(pg))
           /\ last_item' = IF can_use_filter THEN NextLastItem(pg, last_item)
                           ELSE last_item
           /\ page' = pg
           /\ yielded' = Yield(pg)
           /\ pc' = IF MorePages(source, response, Len(pg)) THEN pc
                    ELSE "upload"
    /\ UNCHANGED <<first, changes, blob, chat, runs, target0, schema, source, pageSize, queryCap,
                   targetSchema, target, key_field, non_retrievable_fields,
                   document_count, can_use_filter, gen, result, progress,
                   failed_documents, failed_keys, output, queries,
                   targetCalls, error>>

\* Variant of FetchPage: with the filter an empty page is yielded as well.
FetchPageYieldingEmpty ==
    /\ pc = "next_page"
    /\ gen = "running"
    /\ response.more
    /\ LET pg == PageOf(source, schema, response, pageSize)
       IN  /\ lastFetch' = pg
           /\ fetches' = fetches + 1
           /\ response' = NextResponse(response, Len(pg))
           /\ last_item' = IF can_use_filter THEN NextLastItem(pg, last_item)
                           ELSE last_item
           /\ page' = pg
           /\ yielded' = Yield(pg)
           /\ pc' = "upload"
    /\ UNCHANGED <<first, changes, blob, chat, runs, target0, schema,
                   source, pageSize, queryCap, targetSchema, target,
                   key_field, non_retrievable_fields, document_count,
                   can_use_filter, gen, result, progress, failed_documents,
                   failed_keys, output, queries, targetCalls, error>>

\* for page in response: one page is fetched from the source.  With the
\* filter a non-empty page moves last_item and is yielded and an empty one
\* clears last_item; without the filter every page is yielded.
FetchPage ==
    /\ pc = "next_page"
    /\ gen = "running"
    /\ response.more
    /\ LET pg == PageOf(source, schema, response, pageSize)
       IN  /\ lastFetch' = pg
           /\ fetches' = fetches + 1
           /\ response' = NextResponse(response, Len(pg))
           /\ IF can_use_filter
              THEN IF Len(pg) > 0
                   THEN /\ last_item' = NextLastItem(pg, last_item)
                        /\ page' = pg
                        /\ yielded' = Yield(pg)
                        /\ pc' = "upload"
                   ELSE /\ last_item' = NextLastItem(pg, last_item)
                        /\ page' = page
                        /\ yielded' = yielded
                        /\ pc' = pc
              ELSE /\ last_item' = last_item
                   /\ page' = pg
                   /\ yielded' = Yield(pg)
                   /\ pc' = "upload"
    /\ UNCHANGED <<first, changes, blob, chat, runs, target0, schema, source, pageSize, queryCap, targetSchema, target,
                   key_field, non_retrievable_fields, document_count,
                   can_use_filter, gen, result, progress, failed_documents,
                   failed_keys, output, queries, targetCalls, error>>

\* The response has no further page.  With the filter: query again above
\* last_item if it is set, else break; without: the generator returns.
ResponseDone ==
    /\ pc = "next_page"
    /\ gen = "running"
    /\ ~response.more
    /\ IF can_use_filter /\ Truthy(last_item)
       THEN /\ response' = Search(Filter(key_field.name, last_item), TRUE,
                                  queryCap)
            /\ queries' = Append(queries,
                                 [filter |-> Filter(key_field.name, last_item),
                                  order_by |-> TRUE, top |-> queryCap])
            /\ UNCHANGED <<gen, pc>>
       ELSE /\ gen' = "exhausted"
            /\ pc' = "finish"
            /\ UNCHANGED <<response, queries>>
    /\ UNCHANGED <<first, changes, blob, yielded, chat, runs, target0, schema, source, pageSize, queryCap, targetSchema, target,
                   key_field, non_retrievable_fields, document_count,
                   can_use_filter, last_item, lastFetch, page, result,
                   progress, failed_documents, failed_keys, output, fetches,
                   targetCalls, error>>

\* ---- the upload loop ----------------------------------------------------

PageKeys(pg) == { pg[i].id : i \in 1..Len(pg) }

\* Variant of ProgressAfter: only the documents that succeeded are counted.
ProgressAfterSucceeded(n, res) ==
    n + Cardinality({ i \in 1..Len(res) : res[i].succeeded = TRUE })

\* progress_bar.update(len(result))
ProgressAfter(n, res) == n + Len(res)

\* Variant of UploadDocuments: the call is made on source_search_client.
UploadDocumentsToSource ==
    /\ pc = "upload"
    /\ \E failing \in SUBSET PageKeys(page) :
          /\ source' = Upsert(source, page, failing)
          /\ result' = IndexingResults(page, failing)
    /\ progress' = ProgressAfter(progress, result')
    /\ targetCalls' = targetCalls
    /\ pc' = "examine"
    /\ UNCHANGED <<first, changes, blob, yielded, chat, runs, target0,
                   schema, target, pageSize, queryCap, targetSchema,
                   key_field, non_retrievable_fields, document_count,
                   can_use_filter, gen, last_item, response, lastFetch, page,
                   failed_documents, failed_keys, output, queries, fetches,
                   error>>

\* Variant of UploadDocuments: only the documents whose key the target does
\* not hold yet are put into the batch.
UploadDocumentsNew ==
    /\ pc = "upload"
    /\ LET batch == SelectSeq(page, LAMBDA d : d.id \notin DOMAIN target)
       IN  /\ \E failing \in SUBSET PageKeys(batch) :
                 /\ target' = Upsert(target, batch, failing)
                 /\ result' = IndexingResults(batch, failing)
           /\ targetCalls' = Append(targetCalls,
                                    [op |-> "upload_documents",
                                     documents |-> batch, result |-> result'])
    /\ progress' = ProgressAfter(progress, result')
    /\ pc' = "examine"
    /\ UNCHANGED <<first, changes, blob, yielded, chat, runs, target0, schema, source,
                   pageSize, queryCap, targetSchema, key_field,
                   non_retrievable_fields, document_count, can_use_filter,
                   gen, last_item, response, lastFetch, page,
                   failed_documents, failed_keys, output, queries, fetches,
                   error>>

\* result = upload_documents(documents=page); progress_bar.update(len(result))
UploadDocuments ==
    /\ pc = "upload"
    /\ \E failing \in SUBSET PageKeys(page) :
          /\ target' = Upsert(target, page, failing)
          /\ result' = IndexingResults(page, failing)
    /\ progress' = ProgressAfter(progress, result')
    /\ targetCalls' = Append(targetCalls,
                             [op |-> "upload_documents", documents |-> page,
                              result |-> result'])
    /\ pc' = "examine"
    /\ UNCHANGED <<first, changes, blob, yielded, chat, runs, target0, schema, source, pageSize, queryCap, targetSchema,
                   key_field, non_retrievable_fields, document_count,
                   can_use_filter, gen, last_item, response, lastFetch, page,
                   failed_documents, failed_keys, output, queries, fetches,
                   error>>

Failed(res) == { i \in 1..Len(res) : res[i].succeeded # TRUE }

\* Variant of ExamineResults: the loop is left as soon as the progress bar
\* has reached its total.
ExamineResultsUntilTotal ==
    /\ pc = "examine"
    /\ IF Failed(result) # {}
       THEN /\ failed_documents' = failed_documents + 1
            /\ error' = "AttributeError"
            /\ pc' = "raised"
       ELSE /\ pc' = IF progress >= document_count THEN "finish"
                     ELSE "next_page"
            /\ UNCHANGED <<failed_documents, error>>
    /\ UNCHANGED <<first, changes, blob, yielded, chat, runs, target0,
                   schema, source, pageSize, queryCap, targetSchema, target,
                   key_field, non_retrievable_fields, document_count,
                   can_use_filter, gen, last_item, response, lastFetch, page,
                   result, progress, failed_keys, output, queries, fetches,
                   targetCalls>>

\* for item in result: the first item that did not succeed is counted, and
\* then result.index_of(item) is evaluated: result is a list, which has no
\* attribute index_of, so the statement raises AttributeError.
ExamineResults ==
    /\ pc = "examine"
    /\ IF Failed(result) # {}
       THEN /\ failed_documents' = failed_documents + 1
            /\ error' = "AttributeError"
            /\ pc' = "raised"
       ELSE /\ pc' = "next_page"
            /\ UNCHANGED <<failed_documents, error>>
    /\ UNCHANGED <<first, changes, blob, yielded, chat, runs, target0, schema, source, pageSize, queryCap, targetSchema, target,
                   key_field, non_retrievable_fields, document_count,
                   can_use_filter, gen, last_item, response, lastFetch, page,
                   result, progress, failed_keys, output, queries, fetches,
                   targetCalls>>

\* The summary after the loop and the return.
Finish ==
    /\ pc = "finish"
    /\ output' = IF failed_documents > 0
                 THEN Emit([msg |-> "Failed documents",
                            count |-> failed_documents, keys |-> failed_keys])
                 ELSE Emit([msg |-> "All documents uploaded successfully."])
    /\ pc' = "done"
    /\ UNCHANGED <<first, changes, blob, yielded, chat, runs, target0, schema, source, pageSize, queryCap, targetSchema, target,
                   key_field, non_retrievable_fields, document_count,
                   can_use_filter, gen, last_item, response, lastFetch, page,
                   result, progress, failed_documents, failed_keys, queries,
                   fetches, targetCalls, error>>

\* ---- verify_counts ------------------------------------------------------

\* get_document_count()
DocumentCount(docs) == Cardinality(DOMAIN docs)

\* Variant of CountsMessage: "!=" in place of "==".
CountsMessageInverted(source_document_count, target_document_count) ==
    IF source_document_count # target_document_count
    THEN "Document counts match."
    ELSE "Document counts do not match."

\* Variant of CountsMessage: ">=" in place of "==".
CountsMessageAtLeast(source_document_count, target_document_count) ==
    IF source_document_count >= target_document_count
    THEN "Document counts match."
    ELSE "Document counts do not match."

CountsMessage(source_document_count, target_document_count) ==
    IF source_document_count = target_document_count
    THEN "Document counts match."
    ELSE "Document counts do not match."

VerifyCounts ==
    /\ pc = "done"
    /\ output' = Emit([msg |-> CountsMessage(DocumentCount(source),
                                             DocumentCount(target))])
    /\ pc' = "verified"
    /\ UNCHANGED <<first, changes, blob, yielded, chat, runs, target0, schema, source, pageSize, queryCap, targetSchema, target,
                   key_field, non_retrievable_fields, document_count,
                   can_use_filter, gen, last_item, response, lastFetch, page,
                   result, progress, failed_documents, failed_keys, queries,
                   fetches, targetCalls, error>>

Next ==
    \/ GetIndex
    \/ CreateTargetIndex
    \/ TotalCount
    \/ SelectPagination
    \/ GenStart
    \/ FetchPage
    \/ ResponseDone
    \/ UploadDocuments
    \/ ExamineResults
    \/ Finish
    \/ VerifyCounts

Spec == Init /\ [][Next]_vars

\* The cell that calls backup_and_restore_index is run again: a new call
\* with new locals, a new generator and a new progress bar, on the indexes
\* as the previous run left them.  What the run has done is recorded anew.
Rerun ==
    /\ pc \in {"done", "verified"}
    /\ runs < MaxRuns
    /\ runs' = runs + 1
    /\ target0' = target
    /\ pc' = "get_index"
    /\ key_field' = Unbound
    /\ non_retrievable_fields' = <<>>
    /\ document_count' = 0
    /\ can_use_filter' = FALSE
    /\ gen' = "none"
    /\ lastFetch' = <<>>
    /\ page' = <<>>
    /\ result' = <<>>
    /\ progress' = 0
    /\ failed_documents' = 0
    /\ failed_keys' = <<>>
    /\ output' = <<>>
    /\ queries' = <<>>
    /\ fetches' = 0
    /\ targetCalls' = <<>>
    /\ error' = NoError
    /\ yielded' = <<>>
    /\ UNCHANGED <<first, changes, blob, chat, schema, source, pageSize, queryCap,
                   targetSchema, target, last_item, response>>

NextRerun == Next \/ Rerun

\* Runs on a source index that has a key field and whose documents all
\* carry the same content; the target may hold a document of either content.
RerunInit ==
    /\ Init
    /\ \E i \in 1..Len(schema) : schema[i].key
    /\ \A k \in DOMAIN source : source[k] = "a"

RerunSpec == RerunInit /\ [][NextRerun]_vars

\* Runs on an empty target whose source documents all carry the same
\* content: neither has a part in whether pagination ends.
TermInit ==
    /\ Init
    /\ DOMAIN target = {}
    /\ \A k \in DOMAIN source : source[k] = "a"

\* The notebook runs its cells to the end: a step that can be taken is taken.
TermSpec == TermInit /\ [][Next]_vars /\ WF_vars(Next)

\* ---- two runs that differ in the count total_count returns -------------

\* The counts the service may return for the search of total_count.
Counts == 0..MaxKey

\* total_count, the count returned being any of Counts.
TotalCountAny == \E count \in Counts : TotalCountReturning(count)

\* What a run did, as seen from outside it.
Observed ==
    [queries |-> queries, targetCalls |-> targetCalls,
     pc |-> IF pc = "verified" THEN "done" ELSE pc, error |-> error,
     document_count |-> document_count]

\* backup_and_restore_index is called a second time on the indexes as they
\* were before the first call; what the first call did is kept.
SecondRun ==
    /\ pc \in {"done", "verified", "raised"}
    /\ runs = 1
    /\ runs' = 2
    /\ first' = Observed
    /\ target' = target0
    /\ targetSchema' = IF DOMAIN target0 = {} THEN None
                       ELSE IndexDef(TargetName,
                                     <<KeyFieldDef(TRUE, TRUE, TRUE),
                                       ContentFieldDef(FALSE)>>)
    /\ pc' = "get_index"
    /\ key_field' = Unbound
    /\ non_retrievable_fields' = <<>>
    /\ document_count' = 0
    /\ can_use_filter' = FALSE
    /\ gen' = "none"
    /\ last_item' = None
    /\ response' = None
    /\ lastFetch' = <<>>
    /\ page' = <<>>
    /\ result' = <<>>
    /\ progress' = 0
    /\ failed_documents' = 0
    /\ failed_keys' = <<>>
    /\ output' = <<>>
    /\ queries' = <<>>
    /\ fetches' = 0
    /\ targetCalls' = <<>>
    /\ error' = NoError
    /\ yielded' = <<>>
    /\ UNCHANGED <<changes, blob, chat, target0, schema, source, pageSize,
                   queryCap>>

NextCount ==
    \/ GetIndex
    \/ CreateTargetIndex
    \/ TotalCountAny
    \/ SelectPagination
    \/ GenStart
    \/ FetchPage
    \/ ResponseDone
    \/ UploadDocuments
    \/ ExamineResults
    \/ Finish
    \/ VerifyCounts
    \/ SecondRun

\* Runs to an empty target from a source index that has a key field, whose
\* fields are all retrievable and whose documents all carry the same content.
CountInit ==
    /\ Init
    /\ DOMAIN target = {}
    /\ \E i \in 1..Len(schema) : schema[i].key
    /\ \A i \in 1..Len(schema) : ~schema[i].hidden
    /\ \A k \in DOMAIN source : source[k] = "a"

CountSpec == CountInit /\ [][NextCount]_vars

\* ---- a source that others write to during the run ----------------------

\* The keys of the documents others insert or delete: the keys of the model
\* and one key below them all.
ChangeKeys == 0..MaxKey

\* Between two requests of the pagination another client of the source
\* index inserts a document or deletes one.
SourceChange ==
    /\ gen = "running"
    /\ pc \in {"next_page", "upload", "examine"}
    /\ changes < MaxChanges
    /\ changes' = changes + 1
    /\ \E k \in ChangeKeys :
          source' = IF k \in DOMAIN source
                    THEN [j \in DOMAIN source \ {k} |-> source[j]]
                    ELSE [j \in DOMAIN source \cup {k} |->
                             IF j = k THEN "a" ELSE source[j]]
    /\ UNCHANGED <<first, blob, yielded, chat, runs, target0, schema,
                   pageSize, queryCap, targetSchema, target, pc, key_field,
                   non_retrievable_fields, document_count, can_use_filter,
                   gen, last_item, response, lastFetch, page, result,
                   progress, failed_documents, failed_keys, output, queries,
                   fetches, targetCalls, error>>

NextChanging == Next \/ SourceChange

\* Runs in range-filtered mode to an empty target, all fields retrievable,
\* all documents of the same content.
ChangingInit ==
    /\ Init
    /\ \E i \in 1..Len(schema) :
          schema[i].key /\ schema[i].filterable /\ schema[i].sortable
    /\ \A i \in 1..Len(schema) : ~schema[i].hidden
    /\ \A k \in DOMAIN source : source[k] = "a"
    /\ DOMAIN target = {}

ChangingSpec == ChangingInit /\ [][NextChanging]_vars

TypeOK ==
    /\ pc \in {"get_index", "create_index", "total_count", "select",
               "next_page", "upload", "examine", "finish", "done",
               "verified", "raised"}
    /\ gen \in {"none", "created", "running", "exhausted"}
    /\ progress \in Nat
    /\ fetches \in Nat

\* ---- answer_query_documents (index-and-chat notebook) -------------------

backupVars == <<target0, schema, source, pageSize, queryCap, targetSchema,
                target, pc, key_field, non_retrievable_fields,
                document_count, can_use_filter, gen, last_item, response,
                lastFetch, page, result, progress, failed_documents,
                failed_keys, output, queries, fetches, targetCalls, error,
                runs, yielded, first, changes>>

\* The title lists extract_titles may return; titles are numbered.
TitleLists == { [i \in 1..n |-> i] : n \in 0..MaxTitles }

\* "\n".join([f"{result['title']}\n{result[field]}" ...]): one entry per
\* result, each at least the "\n" inside it, so the string is empty exactly
\* when there is no result.  The string is kept as its list of entries.
Formatted(index, hits) ==
    [i \in 1..Len(hits) |-> [index |-> index, doc |-> hits[i]]]

\* The caller calls answer_query_documents with the history it holds.
ChatCall ==
    /\ chat.pc \in {"idle", "returned", "raised"}
    /\ chat.n < MaxCalls
    /\ \E ip \in BOOLEAN, ic \in BOOLEAN :
          chat' = [chat EXCEPT !.pc = "check", !.n = chat.n + 1,
                               !.include_parent_documents = ip,
                               !.include_child_documents = ic,
                               !.chat_history = chat.history,
                               !.given = chat.history, !.found = {},
                               !.titles = <<>>, !.formatted_results = <<>>,
                               !.messages = <<>>, !.calls = <<>>,
                               !.error = NoError]
    /\ UNCHANGED <<backupVars, blob>>

\* Variant of ChatCheck: the flags are not checked.
ChatCheckSkipped ==
    /\ chat.pc = "check"
    /\ chat' = [chat EXCEPT !.formatted_results = <<>>,
                            !.titles = <<>>,
                            !.pc = IF chat.include_parent_documents
                                   THEN "extract" ELSE "child"]
    /\ UNCHANGED <<backupVars, blob>>

\* The check of the two flags, and formatted_results = "", titles = [].
ChatCheck ==
    /\ chat.pc = "check"
    /\ IF ~chat.include_parent_documents /\ ~chat.include_child_documents
       THEN chat' = [chat EXCEPT !.pc = "raised", !.error = "ValueError"]
       ELSE chat' = [chat EXCEPT !.formatted_results = <<>>,
                                 !.titles = <<>>,
                                 !.pc = IF chat.include_parent_documents
                                        THEN "extract" ELSE "child"]
    /\ UNCHANGED <<backupVars, blob>>

\* titles = await extract_titles(query)
ChatExtractTitles ==
    /\ chat.pc = "extract"
    /\ \E t \in TitleLists :
          chat' = [chat EXCEPT !.titles = t,
                               !.calls = Append(chat.calls, "extract_titles"),
                               !.pc = IF Len(t) > 0 THEN "parent"
                                      ELSE "child"]
    /\ UNCHANGED <<backupVars, blob>>

\* The search of the parent index filtered by the titles, top=len(titles).
ChatParentSearch ==
    /\ chat.pc = "parent"
    /\ \E found \in SUBSET { chat.titles[i] : i \in 1..Len(chat.titles) } :
          chat' = [chat EXCEPT
                     !.calls = Append(chat.calls, "parent_search"),
                     !.found = found,
                     !.formatted_results =
                         Formatted("parent", Ascending(found)),
                     !.pc = "child"]
    /\ UNCHANGED <<backupVars, blob>>

\* Variant of NeedsChildSearch: what the parent index returned is not
\* consulted.
NeedsChildSearchAnyway(formatted_results, include_child_documents) ==
    include_child_documents

\* Variant of NeedsChildSearch: include_child_documents is not consulted.
NeedsChildSearchAlways(formatted_results, include_child_documents) ==
    Len(formatted_results) = 0

\* if len(formatted_results) == 0 and include_child_documents:
NeedsChildSearch(formatted_results, include_child_documents) ==
    Len(formatted_results) = 0 /\ include_child_documents

\* The vector search of the child index, when it is needed.
ChatChildSearch ==
    /\ chat.pc = "child"
    /\ IF NeedsChildSearch(chat.formatted_results,
                           chat.include_child_documents)
       THEN \E n \in 0..MaxChildHits :
               chat' = [chat EXCEPT
                          !.calls = Append(chat.calls, "child_search"),
                          !.formatted_results =
                              Formatted("child", [i \in 1..n |-> i]),
                          !.pc = "complete"]
       ELSE chat' = [chat EXCEPT !.pc = "complete"]
    /\ UNCHANGED <<backupVars, blob>>

SystemMessage == [role |-> "system", documents |-> <<>>, titles |-> <<>>]

UserMessage(formatted_results) ==
    [role |-> "user", documents |-> formatted_results, titles |-> <<>>]

\* The assistant's message; the titles are appended to it if there are any.
AssistantMessage(titles) ==
    [role |-> "assistant", documents |-> <<>>, titles |-> titles]

\* Variant of Messages: the system message is put in front in either case.
MessagesWithSystem(chat_history, formatted_results) ==
    <<SystemMessage>> \o chat_history \o <<UserMessage(formatted_results)>>

\* messages = chat_history + [user] if chat_history else [system, user]
Messages(chat_history, formatted_results) ==
    IF Len(chat_history) > 0
    THEN chat_history \o <<UserMessage(formatted_results)>>
    ELSE <<SystemMessage, UserMessage(formatted_results)>>

\* The chat completion and return messages + [message].
ChatComplete ==
    /\ chat.pc = "complete"
    /\ LET msgs == Messages(chat.chat_history, chat.formatted_results)
       IN  chat' = [chat EXCEPT
                      !.messages = msgs,
                      !.calls = Append(chat.calls, "chat_completion"),
                      !.history = msgs \o <<AssistantMessage(chat.titles)>>,
                      !.ok = chat.ok + 1,
                      !.pc = "returned"]
    /\ UNCHANGED <<backupVars, blob>>

NextChat ==
    \/ ChatCall
    \/ ChatCheck
    \/ ChatExtractTitles
    \/ ChatParentSearch
    \/ ChatChildSearch
    \/ ChatComplete

\* The backup notebook is not run: its indexes are empty.
ChatInit ==
    /\ Init
    /\ schema = <<KeyFieldDef(TRUE, TRUE, TRUE), ContentFieldDef(FALSE)>>
    /\ DOMAIN source = {}
    /\ DOMAIN target = {}
    /\ pageSize = 1
    /\ queryCap = 1

ChatSpec == ChatInit /\ [][NextChat]_vars

\* ---- upload_sample_documents (index-and-chat notebook) ------------------

\* The cell that calls upload_sample_documents is run.
BlobCall ==
    /\ blob.pc \in {"idle", "returned"}
    /\ blob.n < MaxRuns
    /\ blob' = [blob EXCEPT !.pc = "container", !.n = blob.n + 1]
    /\ UNCHANGED <<backupVars, chat>>

\* if not container_client.exists(): container_client.create_container()
\* and pdf_files = glob.glob(...)
BlobContainer ==
    /\ blob.pc = "container"
    /\ blob' = [blob EXCEPT
                  !.container = TRUE,
                  !.calls = IF ~blob.container
                            THEN Append(blob.calls,
                                        [op |-> "create_container", name |-> 0])
                            ELSE blob.calls,
                  !.pdf_files = DOMAIN blob.files,
                  !.pc = "files"]
    /\ UNCHANGED <<backupVars, chat>>

\* Variant of BlobFile: the blob is uploaded with overwrite whether or not
\* one of that name exists.
BlobFileOverwriting ==
    /\ blob.pc = "files"
    /\ \E name \in blob.pdf_files :
          blob' = [blob EXCEPT
                     !.blobs = [b \in DOMAIN blob.blobs \cup {name} |->
                                  IF b = name THEN blob.files[name]
                                  ELSE blob.blobs[b]],
                     !.calls = Append(blob.calls,
                                      [op |-> "upload_blob", name |-> name]),
                     !.pdf_files = blob.pdf_files \ {name}]
    /\ UNCHANGED <<backupVars, chat>>

\* One iteration of for file in pdf_files, in whatever order glob lists
\* them: if not get_blob_client(name).exists(): upload_blob(name, data)
BlobFile ==
    /\ blob.pc = "files"
    /\ \E name \in blob.pdf_files :
          IF name \notin DOMAIN blob.blobs
          THEN blob' = [blob EXCEPT
                          !.blobs = [b \in DOMAIN blob.blobs \cup {name} |->
                                       IF b = name THEN blob.files[name]
                                       ELSE blob.blobs[b]],
                          !.calls = Append(blob.calls,
                                           [op |-> "upload_blob",
                                            name |-> name]),
                          !.pdf_files = blob.pdf_files \ {name}]
          ELSE blob' = [blob EXCEPT !.pdf_files = blob.pdf_files \ {name}]
    /\ UNCHANGED <<backupVars, chat>>

\* The loop is over and the function returns.
BlobReturn ==
    /\ blob.pc = "files"
    /\ blob.pdf_files = {}
    /\ blob' = [blob EXCEPT
                  !.pc = "returned",
                  !.once = IF blob.n = 1
                           THEN [container |-> blob.container,
                                 blobs |-> blob.blobs]
                           ELSE blob.once]
    /\ UNCHANGED <<backupVars, chat>>

NextBlob ==
    \/ BlobCall
    \/ BlobContainer
    \/ BlobFile
    \/ BlobReturn

\* The backup notebook and the chat are not run; the container is absent
\* or holds any blobs, the documents directory holds any PDF files.
BlobInit ==
    /\ InitBackup
    /\ schema = <<KeyFieldDef(TRUE, TRUE, TRUE), ContentFieldDef(FALSE)>>
    /\ DOMAIN source = {}
    /\ DOMAIN target = {}
    /\ pageSize = 1
    /\ queryCap = 1
    /\ chat = ChatIdle
    /\ \E container \in BOOLEAN, blobs \in Stores, files \in Stores :
          /\ ~container => DOMAIN blobs = {}
          /\ blob = BlobStart(container, blobs, files)

BlobSpec == BlobInit /\ [][NextBlob]_vars

ChatCalled(c) == \E i \in 1..Len(chat.calls) : chat.calls[i] = c

\* ---- what a run has done so far ----------------------------------------

RECURSIVE Flatten(_)
Flatten(ss) == IF ss = <<>> THEN <<>> ELSE Head(ss) \o Flatten(Tail(ss))

IsPrefix(s, t) == Len(s) <= Len(t) /\ SubSeq(t, 1, Len(s)) = s

CeilDiv(a, b) == (a + b - 1) \div b

UploadCalls == SelectSeq(targetCalls, LAMBDA c : c.op = "upload_documents")

\* The pages the generator has yielded: those uploaded, and the one held.
YieldedPages ==
    [i \in 1..Len(UploadCalls) |-> UploadCalls[i].documents]
        \o (IF pc = "upload" THEN <<page>> ELSE <<>>)

YieldedDocs == Flatten(YieldedPages)

\* The source's documents as a search returns them, in ascending key order.
SourceHits ==
    LET ks == Ascending(DOMAIN source)
    IN  [i \in 1..Len(ks) |-> Hit(source, schema, ks[i])]

\* The search calls that page through documents (total_count uses top=0).
PagingQueries == SelectSeq(queries, LAMBDA q : q.top > 0)

HasKey == \E i \in 1..Len(schema) : schema[i].key

\* The key field is filterable and sortable.
RangeFilterable ==
    \E i \in 1..Len(schema) :
        schema[i].key /\ schema[i].filterable /\ schema[i].sortable

AllRetrievable == \A i \in 1..Len(schema) : ~schema[i].hidden

SourceSize == Cardinality(DOMAIN source)

Max(a, b) == IF a >= b THEN a ELSE b

Completed == pc \in {"done", "verified"}

Started == gen \in {"running", "exhausted"}

Printed(m) == \E i \in 1..Len(output) : output[i].msg = m

TruncationWarning == "WARNING: maximum of 100,000 records"

\* ---- claims -------------------------------------------------------------

\* C1: in range-filtered mode over a static source with unique ordered keys,
\* the pages yielded so far are always a prefix of the source's documents in
\* ascending key order, and once the generator is exhausted they are all of
\* them, each exactly once, whatever the page size and the per-query cap.
C1_EveryDocumentOnceAscending ==
    (RangeFilterable /\ Started) =>
        /\ IsPrefix(YieldedDocs, SourceHits)
        /\ gen = "exhausted" => YieldedDocs = SourceHits

\* A range-filtered run has ended on a source larger than one query's cap,
\* with more than one page per query.
C1_Witness ==
    /\ RangeFilterable
    /\ gen = "exhausted"
    /\ Cardinality(DOMAIN source) > queryCap
    /\ pageSize < queryCap
    /\ Len(PagingQueries) >= 3

\* C2 (as claimed): once the results of an upload with a failed document
\* have been examined, the run has not aborted and the failure list holds
\* the key and the error of every failed document of that page.
C2_FailureRecordedRunContinues ==
    (Failed(result) # {} /\ pc # "examine") =>
        /\ error = NoError
        /\ \A i \in Failed(result) :
               \E j \in 1..Len(failed_keys) :
                   failed_keys[j] = <<result[i].key, result[i].error_message>>

\* C3: a source schema without a key field stops the run with an error and
\* no call is ever issued on the target, which keeps its schema and documents.
C3_NoKeyNoTargetMutation ==
    ~HasKey =>
        /\ pc \in {"get_index", "raised"}
        /\ pc = "raised" => error # NoError
        /\ targetCalls = <<>>
        /\ target = target0
        /\ targetSchema \in {None, IndexDef(TargetName,
                                            <<KeyFieldDef(TRUE, TRUE, TRUE),
                                              ContentFieldDef(FALSE)>>)}

\* The run on a schema without key has stopped.
C3_Witness == ~HasKey /\ pc = "raised" /\ error = "UnboundLocalError"

\* C4: round trip.  With a filterable and sortable key, every field
\* retrievable and an initially empty target, a run that completes (no
\* upload failed, else it would have raised) leaves the target with exactly
\* the source's documents and field values, and verify_counts prints a match.
C4_RoundTrip ==
    (RangeFilterable /\ AllRetrievable /\ DOMAIN target0 = {} /\ Completed
        /\ failed_documents = 0) =>
        /\ target = source
        /\ pc = "verified" =>
               output[Len(output)].msg = "Document counts match."

\* Three documents have been copied by more than one query and verified.
C4_Witness ==
    /\ RangeFilterable /\ AllRetrievable /\ DOMAIN target0 = {}
    /\ pc = "verified"
    /\ SourceSize = 3
    /\ SourceSize > queryCap
    /\ \E k \in DOMAIN source : source[k] = "a"
    /\ \E k \in DOMAIN source : source[k] = "b"

\* C5: range-filtered pagination over the static source terminates; it is
\* exhausted only after a fetch returned an empty page, and once a fetch has
\* returned an empty page no query and no fetch follows: the generator ends.
C5_TerminatesOnEmptyPage ==
    /\ [](RangeFilterable /\ gen = "exhausted"
              => fetches > 0 /\ lastFetch = <<>>)
    /\ [][(RangeFilterable /\ Started /\ fetches > 0 /\ lastFetch = <<>>)
              => (queries' = queries /\ fetches' = fetches
                      /\ gen' = "exhausted")]_vars
    /\ (RangeFilterable => <>(gen = "exhausted" \/ pc = "raised"))

\* Pagination has ended after a follow-up query returned the empty page.
C5_Witness ==
    /\ RangeFilterable
    /\ gen = "exhausted"
    /\ lastFetch = <<>>
    /\ Len(PagingQueries) = 2
    /\ fetches >= 3

\* C6: the first call on the target is create_or_update_index of the source
\* definition renamed to the target name, so every upload_documents call
\* comes after it and finds the target schema in place.
C6_SchemaBeforeDocuments ==
    targetCalls # <<>> =>
        /\ targetCalls[1].op = "create_or_update_index"
        /\ targetCalls[1].index = IndexDef(TargetName, schema)
        /\ targetSchema = IndexDef(TargetName, schema)

\* Documents have been uploaded to a target that had no schema.
C6_Witness ==
    /\ DOMAIN target0 = {}
    /\ Len(UploadCalls) >= 2

\* C7 (as claimed): without a filterable and sortable key, pagination has
\* yielded exactly one page when it ends, the truncation warning is printed
\* and no query carries a filter.
C7_ExactlyOnePage ==
    (HasKey /\ ~RangeFilterable /\ gen = "exhausted") =>
        /\ Len(YieldedPages) = 1
        /\ Printed(TruncationWarning)
        /\ \A i \in 1..Len(PagingQueries) : PagingQueries[i].filter = None

\* C7 (amended): without a filterable and sortable key, the truncation
\* warning is printed, at most one paging query is issued and none carries a
\* filter; when pagination ends it has issued exactly one and yielded every
\* page of that response: ceil(min(N, cap) / page size), one if that is 0.
C7_OneUnfilteredQueryAllItsPages ==
    (HasKey /\ ~RangeFilterable) =>
        /\ \A i \in 1..Len(PagingQueries) : PagingQueries[i].filter = None
        /\ Len(PagingQueries) <= 1
        /\ Started => Printed(TruncationWarning)
        /\ gen = "exhausted" =>
              /\ Len(PagingQueries) = 1
              /\ Len(YieldedPages) =
                   Max(1, CeilDiv(Min(SourceSize, queryCap), pageSize))

\* Unfiltered pagination has ended after yielding more than one page.
C7_Witness ==
    /\ HasKey /\ ~RangeFilterable
    /\ gen = "exhausted"
    /\ Len(YieldedPages) >= 2

\* C8: once pagination is selected, the range-filtered generator is in use
\* exactly when the key field is filterable and sortable (its queries are
\* ordered by the key, the others are not), the truncation warning is
\* printed exactly when it is not, and the selection raises no error.
C8_FilterIffFilterableAndSortable ==
    (HasKey /\ gen # "none") =>
        /\ can_use_filter <=> RangeFilterable
        /\ Printed(TruncationWarning) <=> ~RangeFilterable
        /\ \A i \in 1..Len(PagingQueries) :
               /\ PagingQueries[i].order_by <=> RangeFilterable
               /\ PagingQueries[i].filter # None => RangeFilterable
        /\ gen = "created" => (error = NoError /\ pc = "next_page")

\* A run that fell back to unfiltered pagination has completed.
C8_Witness ==
    /\ HasKey /\ ~RangeFilterable
    /\ pc = "done"
    /\ SourceSize >= 1
    /\ Printed(TruncationWarning)

\* C9 (as claimed): a completed run over N > page size documents has issued
\* exactly ceil(N / page size) upload_documents calls.
C9_CeilUploads ==
    (HasKey /\ Completed /\ SourceSize > pageSize) =>
        Len(UploadCalls) = CeilDiv(SourceSize, pageSize)

\* C9 (amended): the same, provided N does not exceed one query's cap, or the
\* run is range-filtered and the query cap is a multiple of the page size.
C9_CeilUploadsWithinCap ==
    (HasKey /\ Completed /\ SourceSize > pageSize
        /\ (\/ SourceSize <= queryCap
            \/ RangeFilterable /\ queryCap % pageSize = 0)) =>
        Len(UploadCalls) = CeilDiv(SourceSize, pageSize)

\* A range-filtered run over more documents than one query returns, with
\* more than one page per query, has completed.
C9_Witness ==
    /\ RangeFilterable /\ Completed
    /\ SourceSize > queryCap
    /\ queryCap > pageSize
    /\ queryCap % pageSize = 0

\* C10: verify_counts prints "match" exactly when the source and the target
\* hold the same number of documents, "do not match" otherwise, and raises
\* no error.
C10_VerifyCountsComparesCounts ==
    pc = "verified" =>
        /\ output[Len(output)].msg \in {"Document counts match.",
                                        "Document counts do not match."}
        /\ output[Len(output)].msg = "Document counts match."
               <=> Cardinality(DOMAIN source) = Cardinality(DOMAIN target)
        /\ error = NoError

\* verify_counts has reported a mismatch.
C10_Witness ==
    /\ pc = "verified"
    /\ Cardinality(DOMAIN source) # Cardinality(DOMAIN target)
    /\ output[Len(output)].msg = "Document counts do not match."

\* ---- further views of a run ---------------------------------------------

\* Every per-document result received from upload_documents, in order.
AllResults == Flatten([i \in 1..Len(UploadCalls) |-> UploadCalls[i].result])

\* One (key, error message) entry per result that reported failure.
ReportedFailures ==
    LET failures == SelectSeq(AllResults, LAMBDA r : r.succeeded # TRUE)
    IN  [i \in 1..Len(failures) |->
            <<failures[i].key, failures[i].error_message>>]

Ended == pc \in {"done", "verified", "raised"}

HiddenWarning == "WARNING: not retrievable"

\* What the run printed, the warning about hidden fields left aside.
OutputBesidesHidden == SelectSeq(output, LAMBDA m : m.msg # HiddenWarning)

\* C11 (as claimed): when the run has ended, the failure list holds exactly
\* one (key, error message) entry for every upload result that reported
\* failure, in the order the results were received.
C11_FailureListComplete ==
    (HasKey /\ Ended) => failed_keys = ReportedFailures

\* C12: in unfiltered mode over a source larger than one query's cap, no
\* more than the cap is ever copied, the truncation warning is printed
\* before the first upload, nothing but a failed upload raises, and a
\* completed run has copied exactly the cap and printed, besides the
\* warning, only the report of success.
C12_UnfilteredTruncatesSilently ==
    (HasKey /\ ~RangeFilterable /\ SourceSize > queryCap) =>
        /\ Len(YieldedDocs) <= queryCap
        /\ Cardinality(DOMAIN target \ DOMAIN target0) <= queryCap
        /\ UploadCalls # <<>> => Printed(TruncationWarning)
        /\ error # NoError => (pc = "raised" /\ Failed(result) # {})
        /\ pc = "done" =>
              /\ Len(YieldedDocs) = queryCap
              /\ error = NoError
              /\ OutputBesidesHidden =
                     <<[msg |-> TruncationWarning],
                       [msg |-> "All documents uploaded successfully."]>>

\* An unfiltered run over three documents has completed with two copied.
C12_Witness ==
    /\ HasKey /\ ~RangeFilterable
    /\ pc = "done"
    /\ SourceSize = 3
    /\ queryCap = 2
    /\ Cardinality(DOMAIN target) < SourceSize

C14_MatchDespiteDifferentDocuments ==
    (RangeFilterable /\ ~AllRetrievable /\ DOMAIN target0 = {}
        /\ SourceSize >= 1 /\ pc = "verified") =>
        /\ output[Len(output)].msg = "Document counts match."
        /\ DOMAIN target = DOMAIN source
        /\ target # source

\* A match has been reported although a target document differs.
C14_Witness ==
    /\ pc = "verified"
    /\ output[Len(output)].msg = "Document counts match."
    /\ \E k \in DOMAIN source \cap DOMAIN target : target[k] # source[k]

\* The names of the schema's non-retrievable fields, in schema order.
HiddenNames ==
    LET idx == Ascending({ i \in 1..Len(schema) : schema[i].hidden })
    IN  [j \in 1..Len(idx) |-> schema[idx[j]].name]

\* C15: non-retrievable fields do not stop the run.  The warning is printed
\* exactly when the schema has such fields and names exactly them, the
\* target schema is still created, only a failed upload can raise, and every
\* document uploaded carries no value (null) for a non-retrievable field.
C15_HiddenFieldsWarnedNotCopied ==
    HasKey =>
        /\ pc # "get_index" => (Printed(HiddenWarning) <=> ~AllRetrievable)
        /\ \A i \in 1..Len(output) :
               output[i].msg = HiddenWarning => output[i].fields = HiddenNames
        /\ ~AllRetrievable =>
              /\ error # NoError => (pc = "raised" /\ Failed(result) # {})
              /\ pc \notin {"get_index", "create_index"} =>
                     /\ targetCalls # <<>>
                     /\ targetCalls[1].op = "create_or_update_index"
              /\ \A i \in 1..Len(YieldedDocs) : \A j \in 1..Len(schema) :
                     schema[j].hidden =>
                         YieldedDocs[i][schema[j].name] = Null
              /\ \A k \in DOMAIN target \ DOMAIN target0 : target[k] = Null

\* A source with a hidden field has been copied and the run has completed.
C15_Witness ==
    /\ HasKey /\ ~AllRetrievable
    /\ Completed
    /\ Len(YieldedDocs) >= 2
    /\ Printed(HiddenWarning)

\* C16: a call with include_parent_documents=False makes no extract_titles
\* call and no search of the parent index; a call with
\* include_child_documents=False makes no search of the child index.
C16_DisabledIndexNeverQueried ==
    chat.pc # "idle" =>
        /\ ~chat.include_parent_documents =>
               (~ChatCalled("extract_titles") /\ ~ChatCalled("parent_search"))
        /\ ~chat.include_child_documents => ~ChatCalled("child_search")

\* A call with the child index disabled has returned after extracting no
\* title, and so with no documents at all.
C16_Witness ==
    /\ chat.pc = "returned"
    /\ chat.include_parent_documents
    /\ ~chat.include_child_documents
    /\ ChatCalled("extract_titles")
    /\ chat.titles = <<>>

\* C17: a page is fetched from the source only while the loop waits for the
\* generator, when every page fetched before has been uploaded by a call of
\* its own and the results of the last upload have all been examined without
\* a failure; so the pages fetched never outnumber the uploads by more than
\* the one page held.
C17_FetchAndUploadAlternate ==
    /\ [](fetches - Len(UploadCalls) \in {0, 1})
    /\ [][fetches' # fetches =>
             /\ pc = "next_page"
             /\ fetches' = fetches + 1
             /\ Len(UploadCalls) = fetches
             /\ fetches > 0 =>
                   /\ UploadCalls[fetches].documents = lastFetch
                   /\ Len(result) = Len(lastFetch)
                   /\ Failed(result) = {}]_vars

\* A third page is held after two pages have been fetched and uploaded.
C17_Witness ==
    /\ pc = "upload"
    /\ fetches = 3
    /\ Len(UploadCalls) = 2
    /\ Len(page) > 0

\* C18 (as claimed): throughout range-filtered pagination last_item is the
\* last document of the most recently fetched non-empty page, and None
\* while no non-empty page has been fetched.
C18_CursorIsLastOfLastNonEmptyPage ==
    (RangeFilterable /\ Started) =>
        last_item = IF YieldedPages = <<>> THEN None
                    ELSE LET pg == YieldedPages[Len(YieldedPages)]
                         IN  pg[Len(pg)]

\* C18 (amended): throughout range-filtered pagination last_item is the last
\* document of the most recently fetched page if that page is non-empty
\* (the last document yielded so far); it is None before the first fetch and
\* again once a fetch has returned an empty page.
C18_CursorIsLastOfLastPageOrNone ==
    (RangeFilterable /\ Started) =>
        IF lastFetch = <<>>
        THEN last_item = None
        ELSE /\ last_item = lastFetch[Len(lastFetch)]
             /\ last_item = YieldedDocs[Len(YieldedDocs)]

\* The empty page that ends pagination has cleared the cursor after
\* documents had been yielded.
C18_Witness ==
    /\ RangeFilterable /\ Started
    /\ fetches >= 2
    /\ lastFetch = <<>>
    /\ Len(YieldedDocs) >= 1
    /\ last_item = None

\* C19: in every run of range-filtered pagination the generator starts with
\* no cursor and its first query carries no filter; its i-th query (i > 1)
\* carries the filter "id gt k", k being the key of the last document
\* yielded before it; every query is ordered by the key and capped alike;
\* and so the keys yielded are strictly increasing.
C19_QueriesFilterAboveLastYielded ==
    (RangeFilterable /\ Started) =>
        /\ fetches = 0 => last_item = None
        /\ PagingQueries # <<>>
        /\ \A i \in 1..Len(PagingQueries) :
               /\ PagingQueries[i].order_by
               /\ PagingQueries[i].top = queryCap
               /\ PagingQueries[i].filter =
                      IF i = 1 THEN None
                      ELSE [field |-> "id", op |-> "gt",
                            value |-> SourceHits[Min((i - 1) * queryCap,
                                                     SourceSize)].id]
        /\ \A i \in 1..Len(YieldedDocs) : \A j \in 1..Len(YieldedDocs) :
               i < j => YieldedDocs[i].id < YieldedDocs[j].id

\* The second run has issued a follow-up query after its unfiltered first.
C19_Witness ==
    /\ runs = 2
    /\ RangeFilterable
    /\ Len(PagingQueries) >= 3
    /\ PagingQueries[1].filter = None
    /\ PagingQueries[3].filter # None

\* C20: the progress counter never decreases, and it always equals the
\* number of upload results received so far, which is the number of
\* documents submitted: a result that reports failure counts like any other.
C20_ProgressCountsSubmitted ==
    /\ [](progress = Len(AllResults))
    /\ [](pc # "upload" => progress = Len(YieldedDocs))
    /\ [][progress' >= progress]_vars

\* The second page has been submitted and one of its documents failed.
C20_Witness ==
    /\ Len(UploadCalls) = 2
    /\ Failed(result) # {}
    /\ progress = Len(AllResults)
    /\ progress >= 2

\* C21: exactly one upload_documents call is issued per page the generator
\* yields, in the order of the yields, and the batch of the call is the page
\* as it was fetched: the same documents in the same order with the same
\* field values.  The page yielded last is the one waiting to be uploaded.
C21_OneUploadPerYieldedPage ==
    LET batches == [i \in 1..Len(UploadCalls) |-> UploadCalls[i].documents]
        pages   == [i \in 1..Len(yielded) |-> yielded[i].page]
    IN  /\ pages = IF pc = "upload" THEN Append(batches, page) ELSE batches
        /\ pc = "upload" => page = lastFetch
        /\ \A i \in 1..Len(UploadCalls) :
               Len(UploadCalls[i].result) = Len(yielded[i].page)

C21_Witness ==
    /\ Completed
    /\ DOMAIN target0 # {}
    /\ Len(yielded) = 2
    /\ Len(UploadCalls) = 2
    /\ Len(yielded[1].page) = 2
    /\ yielded[1].page[1].id \in DOMAIN target0

\* The keys for which the uploads of a run reported the given outcome.
KeysReported(calls, outcome) ==
    UNION { { calls[i].result[j].key :
                j \in { l \in 1..Len(calls[i].result) :
                           calls[i].result[l].succeeded = outcome } } :
            i \in { c \in 1..Len(calls) :
                       calls[c].op = "upload_documents" } }

\* The target treated every document the same way in both runs.
SameOutcomes ==
    /\ KeysReported(first.targetCalls, TRUE)
           \cap KeysReported(targetCalls, FALSE) = {}
    /\ KeysReported(first.targetCalls, FALSE)
           \cap KeysReported(targetCalls, TRUE) = {}

\* C22: the value total_count returns only sizes the progress bar: two runs
\* from the same indexes, whatever count each is given, issue the same
\* sequence of source queries and the same sequence of target calls and end
\* at the same point (returned or raised), as long as the target treats each
\* document the same way in both.
C22_CountOnlySizesProgress ==
    (runs = 2 /\ pc \in {"done", "verified", "raised"} /\ SameOutcomes)
        => /\ queries = first.queries
           /\ targetCalls = first.targetCalls
           /\ Observed.pc = first.pc
           /\ error = first.error

C22_Witness ==
    /\ runs = 2
    /\ pc = "done"
    /\ SameOutcomes
    /\ first.document_count = 0
    /\ document_count > SourceSize
    /\ Len(UploadCalls) = 2
    /\ Len(PagingQueries) > 1

\* C23: the target being another index than the source, no step of
\* backup_and_restore_index or verify_counts changes the source: its index
\* definition and its documents stay as they are, also in a run in which an
\* upload reports failures.
C23_SourceOnlyRead == [][source' = source /\ schema' = schema]_vars

C23_Witness ==
    /\ pc = "raised"
    /\ error = "AttributeError"
    /\ Len(UploadCalls) = 2
    /\ ~AllRetrievable
    /\ \E k \in DOMAIN source : k \notin DOMAIN target

\* A document the target held before the run under a key the source does
\* not have is still there, unchanged.
ForeignDocumentsKept ==
    \A k \in DOMAIN target0 \ DOMAIN source :
        k \in DOMAIN target /\ target[k] = target0[k]

\* C24 as stated: a run never deletes or modifies a target document whose
\* key does not occur in the source, and after a failure-free run on a
\* non-empty target the target holds every key of the source.
C24_TargetSupersetOfSource ==
    /\ ForeignDocumentsKept
    /\ (Completed /\ DOMAIN target0 # {})
          => DOMAIN source \subseteq DOMAIN target

\* C24 amended: a run never deletes or modifies a target document whose key
\* does not occur in the source, and after a failure-free run on a
\* non-empty target that paged through the whole source (range-filtered
\* mode, or an unfiltered query the service's cap did not cut short) the
\* target holds every key of the source.
C24_TargetSupersetOfPagedSource ==
    /\ ForeignDocumentsKept
    /\ (Completed /\ DOMAIN target0 # {}
           /\ (RangeFilterable \/ SourceSize <= queryCap))
          => DOMAIN source \subseteq DOMAIN target

\* verify_counts reports a mismatch after such a run.
C24_Witness ==
    /\ pc = "verified"
    /\ Printed("Document counts do not match.")
    /\ RangeFilterable
    /\ SourceSize = 2
    /\ DOMAIN target0 # {}
    /\ DOMAIN target0 \cap DOMAIN source = {}
    /\ DOMAIN target = DOMAIN source \cup DOMAIN target0

\* C25: in range-filtered mode no empty page is yielded or uploaded, and for
\* an empty source the generator issues one query, yields nothing and no
\* upload_documents call is made; in unfiltered mode every page fetched from
\* the response is yielded and uploaded, the empty page of an empty source
\* included.
C25_EmptyPagesUploadedOnlyUnfiltered ==
    /\ (RangeFilterable /\ Started)
          => /\ \A i \in 1..Len(yielded) : yielded[i].page # <<>>
             /\ \A i \in 1..Len(UploadCalls) :
                    UploadCalls[i].documents # <<>>
    /\ (RangeFilterable /\ SourceSize = 0 /\ Completed)
          => /\ Len(PagingQueries) = 1
             /\ yielded = <<>>
             /\ UploadCalls = <<>>
    /\ (HasKey /\ ~RangeFilterable /\ Started)
          => /\ Len(yielded) = fetches
             /\ Len(UploadCalls) = IF pc = "upload" THEN fetches - 1
                                   ELSE fetches
    /\ (HasKey /\ ~RangeFilterable /\ SourceSize = 0 /\ Completed)
          => /\ Len(PagingQueries) = 1
             /\ Len(UploadCalls) = 1
             /\ UploadCalls[1].documents = <<>>

C25_Witness ==
    /\ RangeFilterable
    /\ SourceSize = 0
    /\ Completed
    /\ fetches = 1
    /\ lastFetch = <<>>
    /\ UploadCalls = <<>>

\* The follow-up queries of the range-filtered pagination, in order.
CursorQueries == SelectSeq(queries, LAMBDA q : q.filter # None)

CursorsIncrease ==
    \A i \in 1..Len(CursorQueries), j \in 1..Len(CursorQueries) :
        i < j => CursorQueries[i].filter.value < CursorQueries[j].filter.value

\* A document a query yielded is yielded again by a later query.
YieldedAgain ==
    \E i \in 1..Len(yielded), j \in 1..Len(yielded) :
        /\ yielded[i].query < yielded[j].query
        /\ PageKeys(yielded[i].page) \cap PageKeys(yielded[j].page) # {}

\* C26 as stated: with documents inserted into or deleted from the source
\* between queries, the cursor keys of successive queries are strictly
\* increasing and no document yielded by one query's response is yielded
\* again by a later query's response.
C26_NeverYieldedAgain == CursorsIncrease /\ ~YieldedAgain

\* C26 amended: with documents inserted into or deleted from the source
\* between queries, the cursor keys of successive queries are strictly
\* increasing and every document a query's response yields has a key
\* strictly above that query's cursor.
C26_YieldedAboveCursor ==
    /\ CursorsIncrease
    /\ \A i \in 1..Len(yielded) :
           LET q == queries[yielded[i].query]
           IN  q.filter # None
                  => \A k \in PageKeys(yielded[i].page) : k > q.filter.value

C26_Witness ==
    /\ Completed
    /\ changes > 0
    /\ Len(CursorQueries) >= 2
    /\ YieldedAgain

\* A call of answer_query_documents has got past its first statement.
ChatChecked == chat.pc \in {"extract", "parent", "child", "complete",
                            "returned", "raised"}

\* C27: called with include_parent_documents and include_child_documents
\* both False, answer_query_documents raises ValueError before any external
\* call: no title extraction, no search, no chat completion, and the chat
\* history supplied, and the one the caller holds, are as before the call.
C27_BothDisabledRaisesFirst ==
    (ChatChecked /\ ~chat.include_parent_documents
                 /\ ~chat.include_child_documents)
        => /\ chat.pc = "raised"
           /\ chat.error = "ValueError"
           /\ chat.calls = <<>>
           /\ chat.chat_history = chat.given
           /\ chat.history = chat.given

C27_Witness ==
    /\ chat.pc = "raised"
    /\ chat.error = "ValueError"
    /\ chat.n = 2
    /\ Len(chat.given) = 3

\* The entries of the context that come from the given index.
FromIndex(index) ==
    { i \in 1..Len(chat.formatted_results) :
        chat.formatted_results[i].index = index }

\* C28: once the searches of a call are over, the parent index has been
\* queried exactly if include_parent_documents is set and extract_titles
\* returned a title, the child index exactly if include_child_documents is
\* set and the parent step gave no result text (no title, or no hit), and
\* the context of the answer holds results of one index only.
C28_ParentThenChildFallback ==
    chat.pc \in {"complete", "returned"}
        => /\ ChatCalled("parent_search")
                 <=> (chat.include_parent_documents /\ Len(chat.titles) > 0)
           /\ ChatCalled("child_search")
                 <=> (chat.include_child_documents
                        /\ (~ChatCalled("parent_search") \/ chat.found = {}))
           /\ (ChatCalled("parent_search") /\ chat.found # {})
                 => /\ FromIndex("child") = {}
                    /\ Cardinality(FromIndex("parent"))
                           = Cardinality(chat.found)
           /\ ChatCalled("child_search") => FromIndex("parent") = {}

C28_Witness ==
    /\ chat.pc = "returned"
    /\ chat.calls = <<"extract_titles", "parent_search", "child_search",
                      "chat_completion">>
    /\ FromIndex("child") # {}

\* C29: after n >= 1 successful calls of answer_query_documents, each given
\* the history the one before returned and the first an empty one, the
\* history returned has 1 + 2n messages: one system message, at index 0,
\* then user and assistant messages in turn, ending with an assistant
\* message; and no call changes the list it was given.
C29_HistoryAlternates ==
    /\ chat.chat_history = chat.given
    /\ chat.ok >= 1
          => /\ Len(chat.history) = 1 + 2 * chat.ok
             /\ chat.history[1].role = "system"
             /\ \A i \in 2..Len(chat.history) :
                    chat.history[i].role =
                        IF i % 2 = 0 THEN "user" ELSE "assistant"
             /\ chat.history[Len(chat.history)].role = "assistant"

C29_Witness ==
    /\ chat.pc = "returned"
    /\ chat.ok = 2
    /\ Len(chat.history) = 5
    /\ Len(chat.given) = 3

BlobCalls(op) == { i \in 1..Len(blob.calls) : blob.calls[i].op = op }

\* C30: upload_sample_documents creates the container only if it does not
\* exist and uploads a file only if no blob of its base name exists: a blob
\* the container held keeps its content, nothing is uploaded twice, and
\* from the end of the first call on the container stays as that call left
\* it, whatever a second call does.
C30_UploadIdempotentNoOverwrite ==
    /\ blob.container \/ ~blob.before.container
    /\ BlobCalls("create_container") # {}
          => /\ ~blob.before.container
             /\ Cardinality(BlobCalls("create_container")) = 1
    /\ \A name \in DOMAIN blob.before.blobs :
           name \in DOMAIN blob.blobs
              /\ blob.blobs[name] = blob.before.blobs[name]
    /\ \A i \in BlobCalls("upload_blob") :
           /\ blob.calls[i].name \notin DOMAIN blob.before.blobs
           /\ \A j \in BlobCalls("upload_blob") :
                  blob.calls[j].name = blob.calls[i].name => j = i
    /\ blob.once # None
          => /\ blob.container = blob.once.container
             /\ blob.blobs = blob.once.blobs

C30_Witness ==
    /\ blob.pc = "returned"
    /\ blob.n = 2
    /\ Cardinality(BlobCalls("upload_blob")) = 1
    /\ \E name \in DOMAIN blob.before.blobs :
          /\ name \in DOMAIN blob.files
          /\ blob.files[name] # blob.blobs[name]

====
